---- MODULE Spec2Model ----
(***************************************************************************)
(* External camera provider: device discovery and registration.           *)
(*                                                                         *)
(* Two implementations of the same subsystem are modelled side by side:    *)
(*   "aidl"  camera/provider/default/ExternalCameraProvider.cpp            *)
(*   "hidl"  camera/provider/2.4/default/ExternalCameraProviderImpl_2_4.cpp*)
(* The variable `build` says which one runs and, for the HIDL one, the     *)
(* size of a pointer in the build (kDevicePrefixLen is computed from it).  *)
(*                                                                         *)
(* C strings are sequences of one-character strings.  A std::string device *)
(* name "device@<ver>/external/<id>" is the 4-tuple                        *)
(*   << "device@", <ver chars>, "/external/", <id chars> >>                *)
(* of its two literal parts and its two variable parts.                    *)
(***************************************************************************)
EXTENDS Integers, Sequences, FiniteSets, TLC

(***************************************************************************)
(* Bounds of the model.                                                    *)
(***************************************************************************)
\* what the environment does in one run, counted together: nodes created or
\* deleted under /dev, calls of setCallback and getCameraDeviceInterface, and
\* failures of opendir, inotify_init and inotify_add_watch
MaxEnvSteps == 3

(***************************************************************************)
(* Characters and strings.                                                 *)
(***************************************************************************)
DigitChars == <<"0", "1", "2", "3", "4", "5", "6", "7", "8", "9">>

IsDigit(c) == \E i \in 1..10 : DigitChars[i] = c

DigitVal(c) == (CHOOSE i \in 1..10 : DigitChars[i] = c) - 1

Min(a, b) == IF a < b THEN a ELSE b

\* the first n characters of s (all of s when it is shorter)
Take(s, n) == SubSeq(s, 1, Min(n, Len(s)))

\* s without its first n characters
Drop(s, n) == SubSeq(s, n + 1, Len(s))

\* strncmp(a, b, n) == 0 for NUL-terminated strings a and b
StrNEq(a, b, n) == Take(a, n) = Take(b, n)

RECURSIVE LeadingDigitCount(_)
LeadingDigitCount(s) ==
    IF s = <<>> \/ ~IsDigit(Head(s)) THEN 0 ELSE 1 + LeadingDigitCount(Tail(s))

RECURSIVE DecimalValue(_)
DecimalValue(s) ==
    IF s = <<>> THEN 0
    ELSE DecimalValue(SubSeq(s, 1, Len(s) - 1)) * 10 + DigitVal(s[Len(s)])

HasSign(s) == s # <<>> /\ Head(s) \in {"-", "+"}

Unsigned(s) == IF HasSign(s) THEN Tail(s) ELSE s

\* std::atoi on a terminated string: optional sign, then the leading digits; 0 if none
atoi(s) ==
    LET body == Unsigned(s)
        v    == DecimalValue(Take(body, LeadingDigitCount(body)))
    IN  IF s # <<>> /\ Head(s) = "-" THEN 0 - v ELSE v

\* std::to_string(int)
RECURSIVE to_string(_)
to_string(n) ==
    IF n < 0 THEN <<"-">> \o to_string(0 - n)
    ELSE IF n < 10 THEN <<DigitChars[n + 1]>>
    ELSE to_string(n \div 10) \o <<DigitChars[(n % 10) + 1]>>

(***************************************************************************)
(* Constants of the source.                                                *)
(***************************************************************************)
kDevicePath == <<"/", "d", "e", "v", "/">>

kPrefix == <<"v", "i", "d", "e", "o">>

kPrefixLen == Len(kPrefix)

kCecPrefix == <<"c", "e", "c">>

\* sizeof(kDevicePath): the AIDL file declares a char array ("/dev/" and its NUL),
\* the HIDL file a pointer (const char*), whose size is the build's pointer size
SizeofDevicePath(b) == IF b.impl = "aidl" THEN Len(kDevicePath) + 1 ELSE b.ptr

kDevicePrefixLen(b) ==
    IF b.impl = "aidl" THEN SizeofDevicePath(b) + kPrefixLen - 1
    ELSE SizeofDevicePath(b) + kPrefixLen + 1

NOT_PRESENT == "NOT_PRESENT"

PRESENT == "PRESENT"

\* the value a map entry gets when operator[] creates it (enum value 0)
DefaultStatus == NOT_PRESENT

\* ExternalCameraDevice::kDeviceVersion of the AIDL device
kDeviceVersion == <<"1", ".", "1">>

(***************************************************************************)
(* Builds, configuration and the names under /dev.                         *)
(***************************************************************************)
Builds ==
    { [impl |-> "aidl", ptr |-> 8],
      [impl |-> "hidl", ptr |-> 4],
      [impl |-> "hidl", ptr |-> 8] }

\* cameraIdOffset values of mCfg (ExternalCameraConfig::loadFromCfg)
CfgOffsets == {2}

\* mCfg.mInternalDevices: the suffixes of the internal nodes
InternalDevices == { <<"0">> }

\* ro.vendor.camera.external.hal3TrebleMinorVersion as the HIDL constructor keeps it
HalMinorVersions == {4}

VideoName(sfx) == kPrefix \o sfx

CecName == kCecPrefix \o <<"0">>

\* the directory entries the environment creates and deletes
Entries == { VideoName(<<"0">>), VideoName(<<"3">>), VideoName(<<"5">>), CecName }

\* the entries of /dev when the provider is constructed
InitialDirs == { {VideoName(<<"0">>), VideoName(<<"5">>)} }

\* what an int read from bytes nobody wrote may be
GarbageInts == {0, 5}

(***************************************************************************)
(* A char buffer: the characters written to it and whether a NUL follows   *)
(* them.  The bytes after the written part are indeterminate.              *)
(***************************************************************************)
CString(s) == [chars |-> s, terminated |-> TRUE]

Indeterminate == [chars |-> <<>>, terminated |-> FALSE]

\* snprintf(v4l2DevicePath, kMaxDevicePathLen, "%s%s", kDevicePath, name)
DevicePathOf(name) == CString(kDevicePath \o name)

\* strncpy(dst, src, strlen(src)): src's characters over dst's, no NUL added
StrNCpyNoNul(dst, src) ==
    IF Len(dst.chars) > Len(src.chars)
    THEN [chars |-> src.chars \o Drop(dst.chars, Len(src.chars)),
          terminated |-> dst.terminated]
    ELSE [chars |-> src.chars, terminated |-> FALSE]

\* the values std::atoi(buf + k) may return
AtoiOutcomes(buf, k) ==
    IF k < Len(buf.chars)
    THEN LET rest == Drop(buf.chars, k)
             body == Unsigned(rest)
         IN  IF buf.terminated \/ LeadingDigitCount(body) < Len(body)
             THEN {atoi(rest)}
             ELSE {atoi(rest)} \cup GarbageInts
    ELSE IF k = Len(buf.chars) /\ buf.terminated THEN {0}
    ELSE GarbageInts

(***************************************************************************)
(* Device names.                                                           *)
(***************************************************************************)
\* the version part of the name addExternalCamera / deviceRemoved build
DeviceVersion(b, minor) ==
    IF b.impl = "aidl" THEN kDeviceVersion
    ELSE IF minor = 6 THEN <<"3", ".", "6">>
    ELSE IF minor = 5 THEN <<"3", ".", "5">>
    ELSE <<"3", ".", "4">>

\* std::string("device@") + version + "/external/" + cameraId
DeviceName(ver, cameraId) == <<"device@", ver, "/external/", cameraId>>

\* the name built for a node whose suffix was read as the int n
DeviceNameOf(b, minor, offset, n) ==
    DeviceName(DeviceVersion(b, minor), to_string(offset + n))

\* [0-9]+\.[0-9]+
IsVersion(v) ==
    LET n == LeadingDigitCount(v)
    IN  /\ n > 0
        /\ Len(v) > n + 1
        /\ v[n + 1] = "."
        /\ LeadingDigitCount(Drop(v, n + 1)) = Len(v) - n - 1

\* std::regex_match(deviceName, sm, kDeviceNameRE)
RegexMatch(name) ==
    /\ Len(name) = 4
    /\ name[1] = "device@"
    /\ IsVersion(name[2])
    /\ name[3] = "/external/"
    /\ name[4] # <<>>

INT_MAX == 2147483647

\* the decimal digits d are a number of at most limit, a limit of ten digits
\* (compared without computing a value that no int holds)
AtMost(d, limit) ==
    IF Len(d) < 10 THEN TRUE
    ELSE IF Len(d) > 10 THEN FALSE
    ELSE LET hi == DecimalValue(Take(d, 9))
             lo == DigitVal(d[10])
         IN  hi < limit \div 10 \/ (hi = limit \div 10 /\ lo <= limit % 10)

\* std::stoi: "invalid" (std::invalid_argument), "range" (std::out_of_range) or "ok"
StoiStatus(s) ==
    LET body == Unsigned(s)
        n    == LeadingDigitCount(body)
    IN  IF n = 0 THEN "invalid"
        ELSE IF AtMost(Take(body, n), INT_MAX) THEN "ok"
        ELSE IF Head(s) = "-" /\ Take(body, n) = to_string(INT_MAX \div 10) \o <<"8">> THEN "ok"
        ELSE "range"

\* a matchDeviceName that puts the number of the name in the path as it stands
matchDeviceNameKeepsOffset(offset, name) ==
    IF ~RegexMatch(name)
    THEN [match |-> FALSE, threw |-> FALSE, version |-> <<>>, path |-> <<>>]
    ELSE IF StoiStatus(name[4]) # "ok"
    THEN [match |-> FALSE, threw |-> TRUE, version |-> name[2], path |-> <<>>]
    ELSE [match |-> TRUE, threw |-> FALSE, version |-> name[2],
          path |-> kDevicePath \o kPrefix \o to_string(atoi(name[4]))]

\* matchDeviceName(cameraIdOffset, deviceName, &deviceVersion, &cameraDevicePath)
matchDeviceName(offset, name) ==
    IF ~RegexMatch(name)
    THEN [match |-> FALSE, threw |-> FALSE, version |-> <<>>, path |-> <<>>]
    ELSE IF StoiStatus(name[4]) # "ok"
    THEN [match |-> FALSE, threw |-> TRUE, version |-> name[2], path |-> <<>>]
    ELSE [match |-> TRUE, threw |-> FALSE, version |-> name[2],
          path |-> kDevicePath \o kPrefix \o to_string(atoi(name[4]) - offset)]

(***************************************************************************)
(* Classification.  What the kernel answers for one node at one moment is  *)
(* a record:                                                               *)
(*   readOk      ReadFileToString(sysClassName) succeeds (the read that    *)
(*               precedes the codec test; only the AIDL file has it)       *)
(*   reReadOk    ReadFileToString(sysClassName) succeeds in the "cap" case *)
(*   sysName     the name attribute, as << first part, rest >>             *)
(*   openOk      open(devName, O_RDWR | O_NONBLOCK) succeeds               *)
(*   querycapOk  VIDIOC_QUERYCAP succeeds                                  *)
(*   uvc, cap    vidCap.driver contains "uvc" / "cap"                      *)
(*   enumFmtOk   VIDIOC_ENUM_FMT succeeds                                  *)
(***************************************************************************)
video_decoder_name == "amphion-vpu-decoder"

video_encoder_name == "amphion-vpu-encoder"

propName == "mxc_isi.6.capture"

\* lit.compare(0, lit.length(), name, 0, lit.length()) == 0
StartsWith(name, lit) == name # <<>> /\ name[1] = lit

\* an isExternalDevice that takes every uvc node for a camera, without VIDIOC_ENUM_FMT
isExternalDeviceNoEnumFmt(b, p) ==
    LET no == [external |-> FALSE, hdmiRx |-> FALSE]
    IN  IF b.impl = "aidl" /\ ~p.readOk THEN no
        ELSE IF b.impl = "aidl"
                /\ (StartsWith(p.sysName, video_decoder_name)
                    \/ StartsWith(p.sysName, video_encoder_name)) THEN no
        ELSE IF ~p.openOk THEN no
        ELSE IF ~p.querycapOk THEN no
        ELSE IF p.uvc THEN [external |-> TRUE, hdmiRx |-> FALSE]
        ELSE IF p.cap /\ p.reReadOk /\ StartsWith(p.sysName, propName)
             THEN [external |-> TRUE, hdmiRx |-> TRUE]
        ELSE no

\* ExternalCameraProvider::isExternalDevice and
\* ExternalCameraProviderImpl_2_4::isExternalDevice: [external, hdmiRx]
isExternalDevice(b, p) ==
    LET no == [external |-> FALSE, hdmiRx |-> FALSE]
    IN  IF b.impl = "aidl" /\ ~p.readOk THEN no
        ELSE IF b.impl = "aidl"
                /\ (StartsWith(p.sysName, video_decoder_name)
                    \/ StartsWith(p.sysName, video_encoder_name)) THEN no
        ELSE IF ~p.openOk THEN no
        ELSE IF ~p.querycapOk THEN no
        ELSE IF p.uvc
             THEN IF p.enumFmtOk THEN [external |-> TRUE, hdmiRx |-> FALSE] ELSE no
        ELSE IF p.cap
             THEN IF ~p.reReadOk THEN no
                  ELSE IF StartsWith(p.sysName, propName)
                       THEN [external |-> TRUE, hdmiRx |-> TRUE]
                       ELSE no
        ELSE no

\* what the kernel may answer for a node that exists
NodeProbes ==
    { \* a USB camera
      [readOk |-> TRUE, reReadOk |-> TRUE, sysName |-> <<"UVC Camera", "\n">>, openOk |-> TRUE,
       querycapOk |-> TRUE, uvc |-> TRUE, cap |-> FALSE, enumFmtOk |-> TRUE],
      \* the HDMI receiver
      [readOk |-> TRUE, reReadOk |-> TRUE, sysName |-> <<propName, "\n">>, openOk |-> TRUE,
       querycapOk |-> TRUE, uvc |-> FALSE, cap |-> TRUE, enumFmtOk |-> FALSE],
      \* a hardware decoder
      [readOk |-> TRUE, reReadOk |-> TRUE, sysName |-> <<video_decoder_name, "\n">>, openOk |-> TRUE,
       querycapOk |-> TRUE, uvc |-> FALSE, cap |-> FALSE, enumFmtOk |-> FALSE],
      \* a node whose capability query fails
      [readOk |-> TRUE, reReadOk |-> TRUE, sysName |-> <<"UVC Camera", "\n">>, openOk |-> TRUE,
       querycapOk |-> FALSE, uvc |-> FALSE, cap |-> FALSE, enumFmtOk |-> FALSE] }

\* of these, one that is the HDMI receiver and one that is not
RescanProbes == { p \in NodeProbes : p.querycapOk /\ (p.uvc \/ p.cap) }

\* what the kernel answers for a node that does not exist
AbsentProbe ==
    [readOk |-> FALSE, reReadOk |-> FALSE, sysName |-> <<>>, openOk |-> FALSE,
     querycapOk |-> FALSE, uvc |-> FALSE, cap |-> FALSE, enumFmtOk |-> FALSE]

ProbesOf(dir, name) == IF name \in dir THEN NodeProbes ELSE {AbsentProbe}

\* a deviceAdded that does not look at the capture bits of device_caps
deviceAddedPassesNoCapture(q) == q.openOk /\ q.querycapOk /\ q.initOk

\* a deviceAdded that does not try to initialise an ExternalCameraDevice
deviceAddedPassesUntried(q) == q.openOk /\ q.querycapOk /\ q.capture

\* the checks of deviceAdded before addExternalCamera: open, VIDIOC_QUERYCAP,
\* the capture bits of device_caps, and the trial ExternalCameraDevice
deviceAddedPasses(q) == q.openOk /\ q.querycapOk /\ q.capture /\ q.initOk

AddProbes ==
    { [openOk |-> TRUE, querycapOk |-> TRUE, capture |-> TRUE, initOk |-> TRUE],
      [openOk |-> TRUE, querycapOk |-> TRUE, capture |-> FALSE, initOk |-> TRUE],
      [openOk |-> TRUE, querycapOk |-> TRUE, capture |-> TRUE, initOk |-> FALSE] }

AbsentAddProbe ==
    [openOk |-> FALSE, querycapOk |-> FALSE, capture |-> FALSE, initOk |-> FALSE]

AddProbesOf(dir, name) == IF name \in dir THEN AddProbes ELSE {AbsentAddProbe}

\* the directory entry is a video node: !strncmp(kPrefix, name, kPrefixLen)
IsVideoName(name) == StrNEq(kPrefix, name, kPrefixLen)

\* !strncmp("cec", name, 3)
IsCecName(name) == StrNEq(kCecPrefix, name, 3)

\* a lookup in an empty mInternalDevices
IsInternalNever(name) == FALSE

\* std::string deviceId(name + kPrefixLen); mInternalDevices.count(deviceId) != 0
IsInternal(name) == Drop(name, kPrefixLen) \in InternalDevices

(***************************************************************************)
(* State.                                                                  *)
(***************************************************************************)
VARIABLES
    build,                      \* which implementation, and its pointer size
    cameraIdOffset,             \* mCfg.cameraIdOffset
    mPreferredHal3MinorVersion, \* HIDL only
    mCameraStatusMap,           \* device name -> CameraDeviceStatus
    mCallback,                  \* mCallback (AIDL) / mCallbacks (HIDL)
    devdir,                     \* the entries of /dev
    watching,                   \* the inotify watch mWd is registered
    inq,                        \* events queued in the kernel for mINotifyFD
    wpc,                        \* HotplugThread: "start", "scan", "watch", "events", "exited"
    scanQ,                      \* entries readdir has yet to return to the initial scan
    evbuf,                      \* events of the last read still to be handled
    mHdmiRxNode,                \* the char buffer mHdmiRxNode of threadLoop
    hdmiRxName,                 \* the name the last IN_CREATE of cec* stored in the map, if any did
    rpc,                        \* request context: "idle", "sc_check", "sc_loop", "sc_deliver", "gcdi_index"
    req,                        \* locals of the call in progress
    iterValid,                  \* the map was not changed under the iteration of setCallback
    crashed,                    \* the process has died
    told,                       \* per callback object: the last status it was told for each name since it was attached
    last,                       \* what the last step did
    budget,                     \* how many steps the environment may still take
    mExitPending,               \* the thread was asked to exit (Thread::mExitPending, SimpleThread::mDone)
    constructed                 \* the constructor of the provider has returned

vars ==
    << build, cameraIdOffset, mPreferredHal3MinorVersion, mCameraStatusMap, mCallback,
       devdir, watching, inq, wpc, scanQ, evbuf, mHdmiRxNode, hdmiRxName, rpc, req,
       iterValid,
       crashed, told, last, budget, mExitPending, constructed >>

cfgVars == << build, cameraIdOffset, mPreferredHal3MinorVersion >>

envVars == << devdir, inq >>

workerVars == << wpc, scanQ, evbuf, mHdmiRxNode, hdmiRxName, watching >>

reqVars == << rpc, req >>

NullCb == "nullptr"

Callbacks == {"cb1"}

\* the callback objects there are: the one above and one that may take its place
AllCallbacks == Callbacks \cup {"cb2"}

NoName == <<>>

NoKey == <<>>

EmptyMap == [k \in {} |-> PRESENT]

MapPut(m, k, v) == [x \in DOMAIN m \cup {k} |-> IF x = k THEN v ELSE m[x]]

\* an erase that takes every entry with it
MapClear(m, k) == EmptyMap

MapErase(m, k) == [x \in DOMAIN m \ {k} |-> m[x]]

\* one cameraDeviceStatusChange(id, st) call on the callback object sink
Notif(sink, id, st) == [sink |-> sink, id |-> id, st |-> st]

NoNotif == Notif(NullCb, NoKey, "")

\* told, after the call nt has been made (no call: unchanged)
Tell(t, nt) ==
    IF nt = NoNotif THEN t ELSE [t EXCEPT ![nt.sink] = MapPut(@, nt.id, nt.st)]

\* what a call in progress keeps: the name asked for, the entries the iteration of
\* setCallback has visited, the entry `pair` refers to and its status, and the map
\* as it was when setCallback assigned mCallback
IdleReq ==
    [name |-> NoKey, visited |-> {}, pending |-> NoKey, pendingSt |-> PRESENT,
     snap |-> EmptyMap]

\* the record of a step: the operation, the entry it was about, the nodes
\* isExternalDevice was called for, the nodes deviceAdded opened, the key
\* addExternalCamera stored, the key deviceRemoved looked for and whether it was
\* there, whether shared state was touched outside mLock, the call made on the
\* callback, the status and path of getCameraDeviceInterface, what the kernel
\* answered isExternalDevice and deviceAdded for the node of the entry, and the name
\* getCameraDeviceInterface was called with
NoStep ==
    [op |-> "none", name |-> NoName, classified |-> {}, probed |-> {},
     added |-> NoKey, removed |-> NoKey, hit |-> FALSE, unlocked |-> FALSE,
     notif |-> NoNotif, ret |-> "", path |-> <<>>,
     answers |-> {}, addAnswers |-> {}, asked |-> NoKey]

Step(op, name) == [NoStep EXCEPT !.op = op, !.name = name]

\* what the constructor leaves, whatever mPreferredHal3MinorVersion holds
InitRest ==
    /\ cameraIdOffset \in CfgOffsets
    /\ mCameraStatusMap = EmptyMap
    /\ mCallback = NullCb
    /\ devdir \in InitialDirs
    /\ watching = FALSE
    /\ inq = <<>>
    /\ wpc = "start"
    /\ scanQ = {}
    /\ evbuf = <<>>
    /\ mHdmiRxNode = Indeterminate
    /\ mExitPending = FALSE
    /\ hdmiRxName = NoKey
    /\ rpc = "idle"
    /\ req = IdleReq
    /\ iterValid = TRUE
    /\ crashed = FALSE
    /\ told = [cb \in AllCallbacks |-> EmptyMap]
    /\ last = NoStep
    /\ budget = MaxEnvSteps

\* the provider when its constructor has returned and the thread has yet to run
Init ==
    /\ build \in Builds
    /\ mPreferredHal3MinorVersion \in HalMinorVersions
    /\ constructed = TRUE
    /\ InitRest

(***************************************************************************)
(* The registry operations, each one critical section under mLock.         *)
(***************************************************************************)
\* the iteration of setCallback is under way
Iterating == rpc \in {"sc_loop", "sc_deliver"}

\* the name addExternalCamera / deviceRemoved build from the int n they read
KeyOf(n) == DeviceNameOf(build, mPreferredHal3MinorVersion, cameraIdOffset, n)

\* an addExternalCamera that calls the callback that was attached first
addExternalCameraNotifFirst(cb, m, key) == Notif("cb1", key, PRESENT)

\* the call addExternalCamera makes on the callback after storing key
addExternalCameraNotif(cb, m, key) ==
    IF cb # NullCb THEN Notif(cb, key, PRESENT) ELSE NoNotif

\* deviceRemoved: key is in the map, so that it is erased
deviceRemovedErases(m, key) == key \in DOMAIN m

\* a deviceRemoved that calls the callback whether or not the key was there
deviceRemovedNotifAlways(cb, m, key) ==
    IF cb # NullCb THEN Notif(cb, key, NOT_PRESENT) ELSE NoNotif

\* the call deviceRemoved makes on the callback
deviceRemovedNotif(cb, m, key) ==
    IF deviceRemovedErases(m, key) /\ cb # NullCb
    THEN Notif(cb, key, NOT_PRESENT) ELSE NoNotif

\* addExternalCamera, n being the value of std::atoi(devName + kDevicePrefixLen)
addExternalCamera(n) ==
    /\ mCameraStatusMap' = MapPut(mCameraStatusMap, KeyOf(n), PRESENT)
    /\ told' = Tell(told, addExternalCameraNotif(mCallback, mCameraStatusMap, KeyOf(n)))
    /\ iterValid' = (iterValid /\ (~Iterating \/ KeyOf(n) \in DOMAIN mCameraStatusMap))

\* deviceRemoved, n being the value of std::atoi(devName + kDevicePrefixLen)
deviceRemoved(n) ==
    /\ mCameraStatusMap' = IF deviceRemovedErases(mCameraStatusMap, KeyOf(n))
                           THEN MapErase(mCameraStatusMap, KeyOf(n))
                           ELSE mCameraStatusMap
    /\ told' = Tell(told, deviceRemovedNotif(mCallback, mCameraStatusMap, KeyOf(n)))
    /\ iterValid' = (iterValid /\ ~(Iterating /\ deviceRemovedErases(mCameraStatusMap, KeyOf(n))))

\* the record of a deviceRemoved(n) step
RemovedStep(op, name, n) ==
    [Step(op, name) EXCEPT
       !.removed = KeyOf(n),
       !.hit = deviceRemovedErases(mCameraStatusMap, KeyOf(n)),
       !.notif = deviceRemovedNotif(mCallback, mCameraStatusMap, KeyOf(n))]

\* deviceAdded(devName): the capture probe q, then addExternalCamera
deviceAdded(q, n) ==
    IF deviceAddedPasses(q)
    THEN addExternalCamera(n)
    ELSE UNCHANGED << mCameraStatusMap, told, iterValid >>

\* the record of a step that classified the nodes cl positive at last and went on
\* to deviceAdded(q, n) for the node name
AddedStep(op, evname, cl, name, q, n) ==
    [Step(op, evname) EXCEPT
       !.classified = cl,
       !.probed = {name},
       !.addAnswers = {q},
       !.added = IF deviceAddedPasses(q) THEN KeyOf(n) ELSE NoKey,
       !.notif = IF deviceAddedPasses(q)
                 THEN addExternalCameraNotif(mCallback, mCameraStatusMap, KeyOf(n))
                 ELSE NoNotif]

(***************************************************************************)
(* The environment: nodes appear and disappear under /dev.  Changes made    *)
(* before the watch is registered raise no event; what the initial scan    *)
(* finds is what InitialDirs lists.  A change made while the thread handles*)
(* the events of a read is taken to be made once it waits again: the event *)
(* is read by the next read either way.                                    *)
(***************************************************************************)
Event(name, mask) == [name |-> name, mask |-> mask]

EnvCreate(name) ==
    /\ ~crashed /\ budget > 0 /\ wpc = "watch"
    /\ name \notin devdir
    /\ devdir' = devdir \cup {name}
    /\ inq' = Append(inq, Event(name, "CREATE"))
    /\ budget' = budget - 1
    /\ last' = NoStep
    /\ UNCHANGED << cfgVars, constructed, mExitPending, workerVars, reqVars, mCameraStatusMap, mCallback,
                    iterValid, crashed, told >>

EnvDelete(name) ==
    /\ ~crashed /\ budget > 0 /\ wpc = "watch"
    /\ name \in devdir
    /\ devdir' = devdir \ {name}
    /\ inq' = Append(inq, Event(name, "DELETE"))
    /\ budget' = budget - 1
    /\ last' = NoStep
    /\ UNCHANGED << cfgVars, constructed, mExitPending, workerVars, reqVars, mCameraStatusMap, mCallback,
                    iterValid, crashed, told >>

(***************************************************************************)
(* HotplugThread.                                                          *)
(***************************************************************************)
\* the int addExternalCamera / deviceRemoved read from the path of the entry name
SuffixInts(name) == AtoiOutcomes(DevicePathOf(name), kDevicePrefixLen(build))

\* where the loop that calls threadLoop reads the exit flag: before every call.  The
\* calls begin at the initial scan and, in the AIDL file, at every poll; the HIDL
\* threadLoop stays in its while (!done) loop, whose done nothing sets
ExitChecked == wpc = "start" \/ (build.impl = "aidl" /\ wpc = "watch")

\* the exit flag is set and the thread is where it is read
StopNow == mExitPending /\ ExitChecked

\* opendir(kDevicePath) of the initial scan succeeds: readdir will return the
\* entries, in an order of its own
WorkerOpenDir ==
    /\ ~crashed /\ wpc = "start" /\ ~StopNow
    /\ scanQ' = devdir
    /\ wpc' = "scan"
    /\ last' = NoStep
    /\ UNCHANGED << cfgVars, constructed, mExitPending, envVars, reqVars, evbuf, mHdmiRxNode, watching,
                    mCameraStatusMap, mCallback, iterValid, crashed, told, budget >>
    /\ UNCHANGED hdmiRxName

\* opendir(kDevicePath) of the initial scan fails: updateAttachedCameras returns and
\* initialize goes on (AIDL); threadLoop returns false and the thread ends (HIDL)
WorkerOpenDirFails ==
    /\ ~crashed /\ wpc = "start" /\ ~StopNow /\ budget > 0
    /\ budget' = budget - 1
    /\ scanQ' = {}
    /\ wpc' = IF build.impl = "aidl" THEN "scan" ELSE "exited"
    /\ last' = Step("openDirFails", NoName)
    /\ UNCHANGED << cfgVars, constructed, mExitPending, envVars, reqVars, evbuf, mHdmiRxNode, watching,
                    mCameraStatusMap, mCallback, iterValid, crashed, told >>
    /\ UNCHANGED hdmiRxName

\* one iteration of the readdir loop of the initial scan
WorkerScanEntry ==
    /\ ~crashed /\ wpc = "scan"
    /\ \E name \in scanQ :
        /\ scanQ' = scanQ \ {name}
        /\ IF IsVideoName(name) /\ ~IsInternal(name)
           THEN \E p \in ProbesOf(devdir, name), q \in AddProbesOf(devdir, name),
                   n \in SuffixInts(name) :
                    IF isExternalDevice(build, p).external
                    THEN /\ deviceAdded(q, n)
                         /\ last' = [AddedStep("scan", name, {name}, name, q, n)
                                        EXCEPT !.answers = {p}]
                    ELSE /\ UNCHANGED << mCameraStatusMap, told, iterValid >>
                         /\ last' = [Step("scan", name) EXCEPT !.classified = {name}]
           ELSE /\ UNCHANGED << mCameraStatusMap, told, iterValid >>
                /\ last' = Step("scanSkip", name)
    /\ UNCHANGED << cfgVars, constructed, mExitPending, envVars, reqVars, wpc, evbuf, mHdmiRxNode, watching,
                    mCallback, crashed, budget >>
    /\ UNCHANGED hdmiRxName

\* closedir, inotify_init and inotify_add_watch succeed
WorkerWatch ==
    /\ ~crashed /\ wpc = "scan" /\ scanQ = {}
    /\ watching' = TRUE
    /\ wpc' = "watch"
    /\ last' = NoStep
    /\ UNCHANGED << cfgVars, constructed, mExitPending, envVars, reqVars, scanQ, evbuf, mHdmiRxNode,
                    mCameraStatusMap, mCallback, iterValid, crashed, told, budget >>
    /\ UNCHANGED hdmiRxName

\* inotify_init or inotify_add_watch fails: threadLoop returns true, so the thread
\* calls it again, from its first line
WorkerWatchFails ==
    /\ ~crashed /\ wpc = "scan" /\ scanQ = {} /\ budget > 0
    /\ budget' = budget - 1
    /\ wpc' = "start"
    /\ mHdmiRxNode' = Indeterminate
    /\ last' = NoStep
    /\ UNCHANGED << cfgVars, constructed, mExitPending, envVars, reqVars, scanQ, evbuf, watching,
                    mCameraStatusMap, mCallback, iterValid, crashed, told >>
    /\ UNCHANGED hdmiRxName

\* read(mINotifyFD, ...) returns the queued events.  In the AIDL file every read is
\* a new call of threadLoop, whose local mHdmiRxNode starts indeterminate again.
WorkerRead ==
    /\ ~crashed /\ wpc = "watch" /\ ~StopNow /\ inq # <<>>
    /\ evbuf' = inq
    /\ inq' = <<>>
    /\ wpc' = "events"
    /\ mHdmiRxNode' = IF build.impl = "aidl" THEN Indeterminate ELSE mHdmiRxNode
    /\ last' = NoStep
    /\ UNCHANGED << cfgVars, constructed, mExitPending, devdir, reqVars, scanQ, watching,
                    mCameraStatusMap, mCallback, iterValid, crashed, told, budget >>
    /\ UNCHANGED hdmiRxName

\* sizeof(struct inotify_event): wd, mask, cookie and len, four bytes each
sizeofInotifyEvent == 16

\* what read gives when it gives no whole record: -1, nothing, or part of a header
ShortReads == {-1, 0, sizeofInotifyEvent - 1}

\* a ssize_t compared with a size_t is converted to size_t first: a negative ret
\* becomes 2^w + ret, which is above any sizeof (w is 32 or 64, beyond the
\* integers of the checker, so the conversion is written by its two cases)
LessAsUnsigned(ret, size) == IF ret < 0 THEN FALSE ELSE ret < size

\* the test on the return value of read.  AIDL: ret < sizeof(struct inotify_event)
\* with ret a ssize_t; HIDL: ret >= (int)sizeof(struct inotify_event) with ret an
\* int, whose else branch goes back to read
ReadIsSkipped(b, ret) ==
    IF b.impl = "aidl"
    THEN LessAsUnsigned(ret, sizeofInotifyEvent)
    ELSE ~(ret >= sizeofInotifyEvent)

\* the record that stands for the bytes behind those read wrote
BeyondRecord == [name |-> NoName, mask |-> "BEYOND"]

\* what the bytes of mEventBuf that no read of this call wrote may hold: nothing
\* of this watch, or a record for a name under /dev
UnwrittenRecords ==
    { <<>> } \cup { << Event(name, mask) >> : name \in Entries, mask \in {"CREATE", "DELETE"} }

\* read(mINotifyFD, ...) gives ret, which is not a whole record.  When the test lets
\* it through, while (offset < ret) compares the uint64_t offset with the converted
\* ret and walks the buffer from its first byte on
WorkerReadInvalid(ret) ==
    /\ ~crashed /\ wpc = "watch" /\ ~StopNow
    /\ last' = [Step("readInvalid", NoName) EXCEPT !.ret = IF ret < 0 THEN "failed" ELSE "short"]
    /\ mHdmiRxNode' = IF build.impl = "aidl" THEN Indeterminate ELSE mHdmiRxNode
    /\ IF ReadIsSkipped(build, ret)
       THEN UNCHANGED << wpc, evbuf >>
       ELSE /\ wpc' = "events"
            /\ \E recs \in UnwrittenRecords : evbuf' = recs \o << BeyondRecord >>
    /\ UNCHANGED << cfgVars, constructed, mExitPending, envVars, reqVars, scanQ, watching,
                    mCameraStatusMap, mCallback, iterValid, crashed, told, budget >>
    /\ UNCHANGED hdmiRxName

\* the event at the head of the buffer has been handled
EventDone ==
    /\ evbuf' = Tail(evbuf)
    /\ wpc' = IF Tail(evbuf) = <<>> THEN "watch" ELSE "events"

AtEvent(mask) == ~crashed /\ wpc = "events" /\ evbuf # <<>> /\ Head(evbuf).mask = mask

\* IN_CREATE for a video node that is not internal: usleep, isExternalDevice, deviceAdded
HandleVideoCreate ==
    /\ AtEvent("CREATE")
    /\ IsVideoName(Head(evbuf).name) /\ ~IsInternal(Head(evbuf).name)
    /\ EventDone
    /\ LET name == Head(evbuf).name
       IN  \E p \in ProbesOf(devdir, name), q \in AddProbesOf(devdir, name),
              n \in SuffixInts(name) :
               IF isExternalDevice(build, p).external
               THEN /\ deviceAdded(q, n)
                    /\ last' = [AddedStep("videoCreate", name, {name}, name, q, n)
                                   EXCEPT !.answers = {p}]
               ELSE /\ UNCHANGED << mCameraStatusMap, told, iterValid >>
                    /\ last' = [Step("videoCreate", name) EXCEPT
                                  !.classified = {name}, !.answers = {p}]
    /\ UNCHANGED << cfgVars, constructed, mExitPending, envVars, reqVars, scanQ, mHdmiRxNode, watching,
                    mCallback, crashed, budget >>
    /\ UNCHANGED hdmiRxName

\* IN_DELETE for a video node that is not internal: deviceRemoved(v4l2DevicePath)
HandleVideoDelete ==
    /\ AtEvent("DELETE")
    /\ IsVideoName(Head(evbuf).name) /\ ~IsInternal(Head(evbuf).name)
    /\ EventDone
    /\ \E n \in SuffixInts(Head(evbuf).name) :
        /\ deviceRemoved(n)
        /\ last' = RemovedStep("videoDelete", Head(evbuf).name, n)
    /\ UNCHANGED << cfgVars, constructed, mExitPending, envVars, reqVars, scanQ, mHdmiRxNode, watching,
                    mCallback, crashed, budget >>
    /\ UNCHANGED hdmiRxName

\* an event for an internal video node, or for a name that is neither video* nor cec*
HandleIgnored ==
    /\ ~crashed /\ wpc = "events" /\ evbuf # <<>>
    /\ Head(evbuf).mask \in {"CREATE", "DELETE"}
    /\ LET name == Head(evbuf).name
       IN  /\ ~IsCecName(name)
           /\ ~IsVideoName(name) \/ IsInternal(name)
           /\ last' = Step("ignored", name)
    /\ EventDone
    /\ UNCHANGED << cfgVars, constructed, mExitPending, envVars, reqVars, scanQ, mHdmiRxNode, watching,
                    mCameraStatusMap, mCallback, iterValid, crashed, told, budget >>
    /\ UNCHANGED hdmiRxName

\* the walk of the buffer is at bytes no read wrote, with offset still below the
\* converted ret: it takes what they hold for one more record (counted with the
\* steps of the environment), or it leaves the memory of the process
HandleBeyondBuffer ==
    /\ AtEvent("BEYOND")
    /\ \/ /\ crashed' = TRUE
          /\ UNCHANGED << wpc, evbuf, budget >>
       \/ /\ budget > 0
          /\ budget' = budget - 1
          /\ \E recs \in UnwrittenRecords \ { <<>> } : evbuf' = recs \o << BeyondRecord >>
          /\ UNCHANGED << wpc, crashed >>
    /\ last' = Step("beyondBuffer", NoName)
    /\ UNCHANGED << cfgVars, constructed, mExitPending, envVars, reqVars, scanQ, mHdmiRxNode, watching,
                    mCameraStatusMap, mCallback, iterValid, told >>
    /\ UNCHANGED hdmiRxName

\* the video entries among the entries of dir
VideoEntries(dir) == { e \in dir : IsVideoName(e) }

\* the orders in which readdir may return the entries dir
Orders(dir) ==
    { o \in [1..Cardinality(dir) -> dir] :
        \A i, j \in 1..Cardinality(dir) : i # j => o[i] # o[j] }

\* a re-scan that goes through the whole directory and keeps the last match
RECURSIVE LastHdmiRx(_, _, _, _)
LastHdmiRx(b, order, pr, i) ==
    IF i > Len(order) THEN 0
    ELSE LET later == LastHdmiRx(b, order, pr, i + 1)
         IN  IF later # 0 THEN later
             ELSE IF /\ IsVideoName(order[i])
                     /\ isExternalDevice(b, pr[order[i]]).external
                     /\ isExternalDevice(b, pr[order[i]]).hdmiRx
                  THEN i
                  ELSE 0

\* the readdir loop of the cec re-scan: the index in order of the first video entry
\* for which isExternalDevice(...) && isHdmiRx holds, from index i on; 0 if none
RECURSIVE FirstHdmiRx(_, _, _, _)
FirstHdmiRx(b, order, pr, i) ==
    IF i > Len(order) THEN 0
    ELSE IF /\ IsVideoName(order[i])
            /\ isExternalDevice(b, pr[order[i]]).external
            /\ isExternalDevice(b, pr[order[i]]).hdmiRx
         THEN i
         ELSE FirstHdmiRx(b, order, pr, i + 1)

\* IN_CREATE for cec*: look through /dev for the HDMI receiver node and add it
HandleCecCreate ==
    /\ AtEvent("CREATE")
    /\ IsCecName(Head(evbuf).name)
    /\ EventDone
    /\ \E order \in Orders(VideoEntries(devdir)),
          pr \in [VideoEntries(devdir) -> RescanProbes] :
        LET i == FirstHdmiRx(build, order, pr, 1)
        IN  IF i = 0
            THEN /\ UNCHANGED << mCameraStatusMap, told, iterValid, mHdmiRxNode,
                                 hdmiRxName >>
                 /\ last' = [Step("cecCreate", Head(evbuf).name) EXCEPT
                               !.classified = VideoEntries(devdir)]
            ELSE /\ mHdmiRxNode' = StrNCpyNoNul(mHdmiRxNode, DevicePathOf(order[i]))
                 /\ \E q \in AddProbesOf(devdir, order[i]), n \in SuffixInts(order[i]) :
                      /\ deviceAdded(q, n)
                      /\ hdmiRxName' = IF deviceAddedPasses(q) THEN KeyOf(n) ELSE hdmiRxName
                      /\ last' = [AddedStep("cecCreate", Head(evbuf).name,
                                            { order[j] : j \in 1..i },
                                            order[i], q, n)
                                     EXCEPT !.answers = {pr[order[i]]}]
    /\ UNCHANGED << cfgVars, constructed, mExitPending, envVars, reqVars, scanQ, watching, mCallback, crashed, budget >>

\* IN_CREATE for cec*, and opendir(kDevicePath) fails: threadLoop returns false
HandleCecCreateFails ==
    /\ AtEvent("CREATE")
    /\ IsCecName(Head(evbuf).name)
    /\ budget > 0
    /\ budget' = budget - 1
    /\ wpc' = "exited"
    /\ last' = Step("cecCreateFails", Head(evbuf).name)
    /\ UNCHANGED << cfgVars, constructed, mExitPending, envVars, reqVars, scanQ, evbuf, mHdmiRxNode, watching,
                    mCameraStatusMap, mCallback, iterValid, crashed, told >>
    /\ UNCHANGED hdmiRxName

\* IN_DELETE for cec*: deviceRemoved(mHdmiRxNode)
HandleCecDelete ==
    /\ AtEvent("DELETE")
    /\ IsCecName(Head(evbuf).name)
    /\ EventDone
    /\ \E n \in AtoiOutcomes(mHdmiRxNode, kDevicePrefixLen(build)) :
        /\ deviceRemoved(n)
        /\ last' = RemovedStep("cecDelete", Head(evbuf).name, n)
    /\ UNCHANGED << cfgVars, constructed, mExitPending, envVars, reqVars, scanQ, mHdmiRxNode, watching,
                    mCallback, crashed, budget >>
    /\ UNCHANGED hdmiRxName

(***************************************************************************)
(* The request-handling context.                                           *)
(***************************************************************************)
\* setCallback, its first block: mCallback = in_callback under mLock
SetCallback(cb) ==
    /\ ~crashed /\ rpc = "idle" /\ ~mExitPending /\ budget > 0
    /\ budget' = budget - 1
    /\ mCallback' = cb
    /\ told' = IF cb = NullCb THEN told ELSE [told EXCEPT ![cb] = EmptyMap]
    /\ rpc' = "sc_check"
    /\ req' = [IdleReq EXCEPT !.snap = mCameraStatusMap]
    /\ last' = Step("setCallback", NoName)
    /\ UNCHANGED << cfgVars, constructed, mExitPending, envVars, workerVars, mCameraStatusMap, iterValid,
                    crashed >>

\* setCallback, after the lock is released: the null test of mCallback and the
\* start of the iteration of mCameraStatusMap
SetCallbackCheck ==
    /\ ~crashed /\ rpc = "sc_check"
    /\ rpc' = IF mCallback = NullCb THEN "idle" ELSE "sc_loop"
    /\ req' = IF mCallback = NullCb THEN IdleReq ELSE req
    /\ iterValid' = TRUE
    /\ last' = [Step("setCallbackCheck", NoName) EXCEPT !.unlocked = TRUE]
    /\ UNCHANGED << cfgVars, constructed, mExitPending, envVars, workerVars, mCameraStatusMap, mCallback,
                    crashed, told, budget >>

\* the iteration reaches an entry it has not visited: `pair` refers to it
ReplayNext ==
    /\ ~crashed /\ rpc = "sc_loop"
    /\ \E k \in DOMAIN mCameraStatusMap \ req.visited :
        req' = [req EXCEPT !.visited = @ \cup {k}, !.pending = k,
                           !.pendingSt = mCameraStatusMap[k]]
    /\ rpc' = "sc_deliver"
    /\ last' = [Step("replayNext", NoName) EXCEPT !.unlocked = TRUE]
    /\ UNCHANGED << cfgVars, constructed, mExitPending, envVars, workerVars, mCameraStatusMap, mCallback,
                    iterValid, crashed, told, budget >>

\* mCallback->cameraDeviceStatusChange(pair.first, pair.second)
ReplayDeliver ==
    /\ ~crashed /\ rpc = "sc_deliver"
    /\ told' = Tell(told, Notif(mCallback, req.pending, req.pendingSt))
    /\ rpc' = "sc_loop"
    /\ last' = [Step("replayDeliver", NoName) EXCEPT
                  !.unlocked = TRUE,
                  !.notif = Notif(mCallback, req.pending, req.pendingSt)]
    /\ UNCHANGED << cfgVars, constructed, mExitPending, envVars, workerVars, req, mCameraStatusMap,
                    mCallback, iterValid, crashed, budget >>

\* the iteration reaches end(): every entry was visited, or the map was changed
\* under the iterator and it runs off early
ReplayEnd ==
    /\ ~crashed /\ rpc = "sc_loop"
    /\ DOMAIN mCameraStatusMap \subseteq req.visited \/ ~iterValid
    /\ rpc' = "idle"
    /\ req' = IdleReq
    /\ last' = [Step("replayEnd", NoName) EXCEPT !.unlocked = TRUE]
    /\ UNCHANGED << cfgVars, constructed, mExitPending, envVars, workerVars, mCameraStatusMap, mCallback,
                    iterValid, crashed, told, budget >>

\* the map was changed under the iterator and following it faults
ReplayFaults ==
    /\ ~crashed /\ rpc = "sc_loop" /\ ~iterValid
    /\ crashed' = TRUE
    /\ last' = [Step("replayFaults", NoName) EXCEPT !.unlocked = TRUE]
    /\ UNCHANGED << cfgVars, constructed, mExitPending, envVars, workerVars, reqVars, mCameraStatusMap, mCallback,
                    iterValid, told, budget >>

\* the suffixes of the nodes whose names the request context asks for
ResolveSuffixes == {3, 5}

ResolveInputs == { KeyOf(n) : n \in ResolveSuffixes }

\* getCameraDeviceInterface up to mCameraStatusMap.count(name) == 0; no lock is taken
GetCameraDeviceInterface(name) ==
    /\ ~crashed /\ rpc = "idle" /\ ~mExitPending /\ budget > 0
    /\ budget' = budget - 1
    /\ LET m == matchDeviceName(cameraIdOffset, name)
       IN  IF m.threw
           THEN /\ crashed' = TRUE
                /\ UNCHANGED << rpc, req >>
                /\ last' = [Step("getCameraDeviceInterface", NoName) EXCEPT !.asked = name]
           ELSE IF ~m.match
           THEN /\ UNCHANGED << crashed, rpc, req >>
                /\ last' = [Step("getCameraDeviceInterface", NoName) EXCEPT
                              !.asked = name,
                              !.ret = "ILLEGAL_ARGUMENT"]
           ELSE IF name \notin DOMAIN mCameraStatusMap
           THEN /\ UNCHANGED << crashed, rpc, req >>
                /\ last' = [Step("getCameraDeviceInterface", NoName) EXCEPT
                              !.asked = name,
                              !.ret = "ILLEGAL_ARGUMENT", !.unlocked = TRUE]
           ELSE /\ rpc' = "gcdi_index"
                /\ req' = [IdleReq EXCEPT !.name = name]
                /\ UNCHANGED crashed
                /\ last' = [Step("getCameraDeviceInterface", NoName) EXCEPT
                              !.asked = name,
                              !.unlocked = TRUE]
    /\ UNCHANGED << cfgVars, constructed, mExitPending, envVars, workerVars, mCameraStatusMap, mCallback, iterValid,
                    told >>

\* getCameraDeviceInterface from mCameraStatusMap[name] != PRESENT on: operator[]
\* creates the entry when it is not there, then the device object is constructed
GetCameraDeviceInterfaceIndex ==
    /\ ~crashed /\ rpc = "gcdi_index"
    /\ rpc' = "idle"
    /\ req' = IdleReq
    /\ IF req.name \notin DOMAIN mCameraStatusMap
       THEN /\ mCameraStatusMap' = MapPut(mCameraStatusMap, req.name, DefaultStatus)
            /\ last' = [Step("getCameraDeviceInterfaceIndex", NoName) EXCEPT
                          !.asked = req.name,
                          !.ret = "ILLEGAL_ARGUMENT", !.unlocked = TRUE]
       ELSE /\ UNCHANGED mCameraStatusMap
            /\ IF mCameraStatusMap[req.name] # PRESENT
               THEN last' = [Step("getCameraDeviceInterfaceIndex", NoName) EXCEPT
                          !.asked = req.name,
                               !.ret = "ILLEGAL_ARGUMENT", !.unlocked = TRUE]
               ELSE \E initOk \in BOOLEAN :
                      last' = [Step("getCameraDeviceInterfaceIndex", NoName) EXCEPT
                          !.asked = req.name,
                                 !.ret = IF initOk THEN "OK" ELSE "INTERNAL_ERROR",
                                 !.path = matchDeviceName(cameraIdOffset, req.name).path,
                                 !.unlocked = TRUE]
    /\ UNCHANGED << cfgVars, constructed, mExitPending, envVars, workerVars, mCallback, iterValid,
                    crashed, told, budget >>

(***************************************************************************)
(* The specification.                                                      *)
(***************************************************************************)
Next ==
    \/ \E name \in Entries : EnvCreate(name)
    \/ \E name \in Entries : EnvDelete(name)
    \/ WorkerOpenDir
    \/ WorkerOpenDirFails
    \/ WorkerScanEntry
    \/ WorkerWatch
    \/ WorkerWatchFails
    \/ WorkerRead
    \/ HandleVideoCreate
    \/ HandleVideoDelete
    \/ HandleIgnored
    \/ HandleCecCreate
    \/ HandleCecCreateFails
    \/ HandleCecDelete
    \/ \E cb \in Callbacks \cup {NullCb} : SetCallback(cb)
    \/ SetCallbackCheck
    \/ ReplayNext
    \/ ReplayDeliver
    \/ ReplayEnd
    \/ ReplayFaults
    \/ \E name \in ResolveInputs : GetCameraDeviceInterface(name)
    \/ GetCameraDeviceInterfaceIndex

Spec == Init /\ [][Next]_vars

\* the provider of ExternalCameraProvider.cpp alone
InitAidl == Init /\ build.impl = "aidl"

SpecAidl == InitAidl /\ [][Next]_vars

\* names that are not device@<major>.<minor>/external/<decimal id>: an id that is
\* no number, digits followed by a letter, a number too large for int, no id, and
\* a version without a minor part
MalformedInputs ==
    { DeviceName(<<"3", ".", "4">>, <<"x">>),
      DeviceName(<<"3", ".", "4">>, <<"7", "x">>),
      DeviceName(<<"3", ".", "4">>, <<"9", "9", "9", "9", "9", "9", "9", "9", "9", "9">>),
      DeviceName(<<"3", ".", "4">>, <<>>),
      DeviceName(<<"3">>, <<"7">>) }

\* the calls may also be made with malformed names
NextResolve ==
    \/ Next
    \/ \E name \in MalformedInputs : GetCameraDeviceInterface(name)

SpecResolve == Init /\ [][NextResolve]_vars

\* the video nodes that come and go, the thread that handles their events, and
\* setCallback: no cec node, no resolution, no failure of opendir or inotify
NextVideo ==
    \/ \E name \in VideoEntries(Entries) : EnvCreate(name)
    \/ \E name \in VideoEntries(Entries) : EnvDelete(name)
    \/ WorkerOpenDir
    \/ WorkerScanEntry
    \/ WorkerWatch
    \/ WorkerRead
    \/ HandleVideoCreate
    \/ HandleVideoDelete
    \/ HandleIgnored
    \/ \E cb \in Callbacks \cup {NullCb} : SetCallback(cb)
    \/ SetCallbackCheck
    \/ ReplayNext
    \/ ReplayDeliver
    \/ ReplayEnd

SpecVideo == Init /\ [][NextVideo]_vars

\* the same, the callback being replaced by another object or cleared
NextSinks ==
    \/ \E name \in VideoEntries(Entries) : EnvCreate(name)
    \/ \E name \in VideoEntries(Entries) : EnvDelete(name)
    \/ WorkerOpenDir
    \/ WorkerScanEntry
    \/ WorkerWatch
    \/ WorkerRead
    \/ HandleVideoCreate
    \/ HandleVideoDelete
    \/ HandleIgnored
    \/ \E cb \in AllCallbacks \cup {NullCb} : SetCallback(cb)
    \/ SetCallbackCheck
    \/ ReplayNext
    \/ ReplayDeliver
    \/ ReplayEnd

SpecSinks == Init /\ [][NextSinks]_vars

\* the thread and /dev, cec nodes included; no call comes in and nothing fails
NextWorker ==
    \/ \E name \in Entries : EnvCreate(name)
    \/ \E name \in Entries : EnvDelete(name)
    \/ WorkerOpenDir
    \/ WorkerScanEntry
    \/ WorkerWatch
    \/ WorkerRead
    \/ HandleVideoCreate
    \/ HandleVideoDelete
    \/ HandleIgnored
    \/ HandleCecCreate
    \/ HandleCecDelete

SpecWorker == Init /\ [][NextWorker]_vars

\* the cec node that comes and goes, the thread that handles its events, and
\* setCallback; the video nodes are those that were there at the start
NextCec ==
    \/ EnvCreate(CecName)
    \/ EnvDelete(CecName)
    \/ WorkerOpenDir
    \/ WorkerScanEntry
    \/ WorkerWatch
    \/ WorkerRead
    \/ HandleCecCreate
    \/ HandleCecDelete
    \/ \E cb \in Callbacks \cup {NullCb} : SetCallback(cb)
    \/ SetCallbackCheck
    \/ ReplayNext
    \/ ReplayDeliver
    \/ ReplayEnd

SpecCec == Init /\ [][NextCec]_vars

\* the initial scan, which registers the nodes, and the resolutions of the names it
\* has registered
NextPath ==
    \/ WorkerOpenDir
    \/ WorkerScanEntry
    \/ WorkerWatch
    \/ \E name \in DOMAIN mCameraStatusMap : GetCameraDeviceInterface(name)
    \/ GetCameraDeviceInterfaceIndex

SpecPath == Init /\ [][NextPath]_vars

\* the thread and /dev as in NextWorker, with reads that give no whole record
NextRead ==
    \/ \E name \in Entries : EnvCreate(name)
    \/ \E name \in Entries : EnvDelete(name)
    \/ WorkerOpenDir
    \/ WorkerScanEntry
    \/ WorkerWatch
    \/ WorkerRead
    \/ \E ret \in ShortReads : WorkerReadInvalid(ret)
    \/ HandleVideoCreate
    \/ HandleVideoDelete
    \/ HandleIgnored
    \/ HandleCecCreate
    \/ HandleCecDelete
    \/ HandleBeyondBuffer

SpecRead == Init /\ [][NextRead]_vars

\* the initial scan, which builds the names, and the resolutions, which parse them
NextRoundTrip ==
    \/ WorkerOpenDir
    \/ WorkerScanEntry
    \/ WorkerWatch
    \/ \E name \in ResolveInputs : GetCameraDeviceInterface(name)
    \/ GetCameraDeviceInterfaceIndex

SpecRoundTrip == Init /\ [][NextRoundTrip]_vars

(***************************************************************************)
(* isExternalDevice on its own: every answer the kernel can give for one   *)
(* node, for each build.                                                   *)
(***************************************************************************)
\* what /sys/class/video4linux/<node>/name may hold
SysNames ==
    { <<"UVC Camera", "\n">>, <<propName, "\n">>,
      <<video_decoder_name, "\n">>, <<video_encoder_name, "\n">> }

AllProbes ==
    [readOk : BOOLEAN, reReadOk : BOOLEAN, sysName : SysNames, openOk : BOOLEAN,
     querycapOk : BOOLEAN, uvc : BOOLEAN, cap : BOOLEAN, enumFmtOk : BOOLEAN]

\* the return value and *isHdmiRx of isExternalDevice, in the words of the classifier
Classification(r) ==
    IF ~r.external THEN "NotExternal"
    ELSE IF r.hdmiRx THEN "ExternalReceiver" ELSE "External"

\* one call of isExternalDevice for a node that answers p
IsExternalDeviceCall(p) ==
    /\ ~crashed
    /\ last' = [Step("isExternalDevice", NoName) EXCEPT
                  !.answers = {p},
                  !.ret = Classification(isExternalDevice(build, p))]
    /\ UNCHANGED << cfgVars, constructed, mExitPending, envVars, reqVars, workerVars, mCameraStatusMap,
                    mCallback, iterValid, crashed, told, budget >>

NextClassify == \E p \in AllProbes : IsExternalDeviceCall(p)

SpecClassify == Init /\ [][NextClassify]_vars

(***************************************************************************)
(* The HIDL constructor.  It starts the thread, and only then reads the    *)
(* property and assigns mPreferredHal3MinorVersion, a member with no       *)
(* initialiser: a thread that is quick reads what the memory held.         *)
(***************************************************************************)
\* ro.vendor.camera.external.hal3TrebleMinorVersion after the switch: 4, 5 or 6
PropertyMinorVersions == {4, 6}

\* the HIDL provider when mHotPlugThread->run has been called
InitCtor ==
    /\ build \in { b \in Builds : b.impl = "hidl" }
    /\ mPreferredHal3MinorVersion \in GarbageInts
    /\ constructed = FALSE
    /\ InitRest

\* mPreferredHal3MinorVersion = property_get_int32(...), the switch, and the return
ConstructorEnds ==
    /\ ~crashed /\ ~constructed
    /\ constructed' = TRUE
    /\ \E v \in PropertyMinorVersions : mPreferredHal3MinorVersion' = v
    /\ last' = Step("constructorEnds", NoName)
    /\ UNCHANGED << build, cameraIdOffset, mExitPending, envVars, reqVars, workerVars,
                    mCameraStatusMap, mCallback, iterValid, crashed, told, budget >>

\* the constructor, the thread and the video nodes; no call comes in
NextCtor ==
    \/ ConstructorEnds
    \/ \E name \in VideoEntries(Entries) : EnvCreate(name)
    \/ \E name \in VideoEntries(Entries) : EnvDelete(name)
    \/ WorkerOpenDir
    \/ WorkerScanEntry
    \/ WorkerWatch
    \/ WorkerRead
    \/ HandleVideoCreate
    \/ HandleVideoDelete
    \/ HandleIgnored

SpecCtor == InitCtor /\ [][NextCtor]_vars

(***************************************************************************)
(* The end of the provider.  The destructor asks the thread to exit: the   *)
(* AIDL one waits for it (requestExitAndWait), the HIDL one does not       *)
(* (requestExit), so that the provider is destroyed under a thread that    *)
(* still runs and holds mParent.                                           *)
(***************************************************************************)
\* ~ExternalCameraProvider / ~ExternalCameraProviderImpl_2_4: no call is in progress
\* on an object that is destroyed
RequestExit ==
    /\ ~crashed /\ rpc = "idle" /\ ~mExitPending
    /\ mExitPending' = TRUE
    /\ last' = Step("requestExit", NoName)
    /\ UNCHANGED << cfgVars, constructed, envVars, reqVars, workerVars, mCameraStatusMap, mCallback,
                    iterValid, crashed, told, budget >>

\* the loop that calls threadLoop finds the exit flag set and ends the thread
WorkerExits ==
    /\ ~crashed /\ StopNow
    /\ wpc' = "exited"
    /\ last' = Step("workerExits", NoName)
    /\ UNCHANGED << cfgVars, constructed, mExitPending, envVars, reqVars, scanQ, evbuf, mHdmiRxNode,
                    hdmiRxName, watching, mCameraStatusMap, mCallback, iterValid,
                    crashed, told, budget >>

\* HIDL: the thread handles an event through mParent after the provider was
\* destroyed.  The memory may still hold what it held (the handlers above go on as
\* before) or the process dies
UseAfterDestroy ==
    /\ ~crashed /\ build.impl = "hidl" /\ mExitPending
    /\ wpc = "events"
    /\ crashed' = TRUE
    /\ last' = Step("useAfterDestroy", NoName)
    /\ UNCHANGED << cfgVars, constructed, mExitPending, envVars, reqVars, workerVars, mCameraStatusMap,
                    mCallback, iterValid, told, budget >>

\* the steps of the hot-plug thread
WorkerSteps ==
    \/ WorkerOpenDir
    \/ WorkerScanEntry
    \/ WorkerWatch
    \/ WorkerRead
    \/ HandleVideoCreate
    \/ HandleVideoDelete
    \/ HandleIgnored
    \/ HandleCecCreate
    \/ HandleCecDelete
    \/ WorkerExits

NextStop ==
    \/ Next
    \/ RequestExit
    \/ WorkerExits
    \/ UseAfterDestroy

\* the thread is scheduled: a step it can take for ever is taken
SpecStop == Init /\ [][NextStop]_vars /\ WF_vars(WorkerSteps)

(***************************************************************************)
(* Properties.  `last` describes the step just taken; `told` is, for each   *)
(* callback object, the status it was last given for each name since it    *)
(* was attached.                                                            *)
(***************************************************************************)
\* the callback cb was given name id, and PRESENT the last time
ToldPresent(cb, id) ==
    cb # NullCb /\ id \in DOMAIN told[cb] /\ told[cb][id] = PRESENT

\* name is video<S> for a suffix S of mInternalDevices
InternalNode(name) == \E sfx \in InternalDevices : name = VideoName(sfx)

\* the name of the camera at the node name
NodeId(name) == KeyOf(atoi(Drop(name, kPrefixLen)))

\* the steps of a setCallback call
SetCallbackOps ==
    {"setCallback", "setCallbackCheck", "replayNext", "replayDeliver", "replayEnd"}

\* C1: addExternalCamera for a name the map holds as PRESENT, the attached callback
\* having been told so, leaves the map as it is and makes no call on the callback
C1_RepeatPresentEmitsNothing ==
    [][ ( /\ last'.added # NoKey
          /\ last'.added \in DOMAIN mCameraStatusMap
          /\ mCameraStatusMap[last'.added] = PRESENT
          /\ ToldPresent(mCallback, last'.added) )
        => /\ mCameraStatusMap' = mCameraStatusMap
           /\ last'.notif = NoNotif
           /\ told' = told ]_vars

\* C2: the calls one callback gets for one name since its attachment alternate,
\* PRESENT first: PRESENT only when it was not told PRESENT last, NOT_PRESENT only
\* when it was
C2_NotificationsAlternate ==
    [][ last'.notif # NoNotif
        => ((last'.notif.st = PRESENT) # ToldPresent(last'.notif.sink, last'.notif.id)) ]_vars

\* C3: deviceRemoved for a name that is not in the map erases nothing, leaves the
\* map as it is, makes no call on the callback, and the thread goes on
C3_RemoveAbsentIsNoOp ==
    [][ ( /\ last'.op \in {"videoDelete", "cecDelete"}
          /\ last'.removed \notin DOMAIN mCameraStatusMap )
        => /\ ~last'.hit
           /\ mCameraStatusMap' = mCameraStatusMap
           /\ last'.notif = NoNotif
           /\ told' = told
           /\ wpc' \in {"watch", "events"}
           /\ ~crashed' ]_vars

\* C3: a DELETE was handled for a name that was not in the map, a callback attached
C3_Witness ==
    /\ last.op \in {"videoDelete", "cecDelete"}
    /\ last.removed # NoKey
    /\ ~last.hit
    /\ mCallback # NullCb
    /\ ~crashed

\* C4: IN_DELETE for a video node that is not internal and whose name is in the map
\* as PRESENT erases that name and no other, calls isExternalDevice and deviceAdded
\* for no node, and makes one NOT_PRESENT call for that name on the callback if
\* there is one
C4_DeleteRemovesExactlyThatId ==
    [][ ( /\ last'.op = "videoDelete"
          /\ NodeId(last'.name) \in DOMAIN mCameraStatusMap
          /\ mCameraStatusMap[NodeId(last'.name)] = PRESENT )
        => /\ last'.removed = NodeId(last'.name)
           /\ last'.hit
           /\ mCameraStatusMap' =
                [k \in DOMAIN mCameraStatusMap \ {NodeId(last'.name)} |-> mCameraStatusMap[k]]
           /\ last'.classified = {}
           /\ last'.probed = {}
           /\ last'.notif = IF mCallback = NullCb THEN NoNotif
                            ELSE Notif(mCallback, NodeId(last'.name), NOT_PRESENT)
           /\ told' = Tell(told, last'.notif) ]_vars

\* C4: IN_DELETE was handled for a node whose name was in the map, another name
\* stays in the map and the callback was called
C4_Witness ==
    /\ last.op = "videoDelete"
    /\ last.hit
    /\ last.removed = NodeId(last.name)
    /\ last.notif = Notif(mCallback, last.removed, NOT_PRESENT)
    /\ mCallback # NullCb
    /\ mCameraStatusMap # EmptyMap

\* C5: setCallback with a callback calls it with PRESENT once for each name that was
\* in the map when mCallback was assigned, for no other name, for no name it was
\* told of already, and does not change the map
C5_ReplayIsRegistryAtAttach ==
    [][ /\ last'.op = "replayDeliver"
            => /\ last'.notif.sink = mCallback
               /\ last'.notif.st = PRESENT
               /\ last'.notif.id \in DOMAIN req.snap
               /\ last'.notif.id \notin DOMAIN told[mCallback]
        /\ last'.op = "replayEnd" => req.visited = DOMAIN req.snap
        /\ last'.op \in SetCallbackOps => mCameraStatusMap' = mCameraStatusMap ]_vars

\* C6: setCallback has returned and the thread waits for events with none queued:
\* the callback was told PRESENT last for exactly the names in the map
C6_NoLostNotification ==
    ( /\ ~crashed
      /\ rpc = "idle"
      /\ mCallback # NullCb
      /\ wpc = "watch"
      /\ inq = <<>> )
    => \A id \in DOMAIN mCameraStatusMap \cup DOMAIN told[mCallback] :
          ToldPresent(mCallback, id) <=> id \in DOMAIN mCameraStatusMap

\* C7: no step of setCallback, getCameraDeviceInterface, addExternalCamera or
\* deviceRemoved reads or writes mCameraStatusMap or mCallback outside mLock
C7_SharedStateUnderLock == ~last.unlocked

\* C8: every entry of mCameraStatusMap is PRESENT
C8_OnlyPresentEntries ==
    \A id \in DOMAIN mCameraStatusMap : mCameraStatusMap[id] = PRESENT

\* C9: a scan entry or an event for video<S>, S in mInternalDevices, leaves the map
\* as it is and makes no call on the callback
C9_InternalNodeIgnored ==
    [][ InternalNode(last'.name)
        => /\ mCameraStatusMap' = mCameraStatusMap
           /\ told' = told
           /\ last'.notif = NoNotif
           /\ last'.added = NoKey
           /\ last'.removed = NoKey ]_vars

\* C9: an event for an internal node was handled, a callback attached and a name
\* in the map
C9_Witness ==
    /\ InternalNode(last.name)
    /\ last.op = "ignored"
    /\ mCallback # NullCb
    /\ mCameraStatusMap # EmptyMap

\* C10: no step calls isExternalDevice or deviceAdded for video<S>, S in
\* mInternalDevices, and the map never holds the name made from such an S
C10_InternalNeverClassified ==
    /\ \A e \in last.classified \cup last.probed : ~InternalNode(e)
    /\ \A sfx \in InternalDevices : NodeId(VideoName(sfx)) \notin DOMAIN mCameraStatusMap

\* C11: every step of the initial scan leaves the map as it is, except for an entry
\* video<N>, N not in mInternalDevices, that isExternalDevice accepts and deviceAdded
\* passes: that step stores the name made from N as PRESENT.  The map, empty at
\* construction, is thus the set of these names when the scan ends
C11_ScanRegistersExactlyTheNodes ==
    [][ last'.op \in {"scan", "scanSkip"}
        => /\ last'.added # NoKey => ~InternalNode(last'.name) /\ last'.added = NodeId(last'.name)
           /\ mCameraStatusMap' =
                IF last'.added # NoKey
                THEN [k \in DOMAIN mCameraStatusMap \cup {NodeId(last'.name)} |->
                        IF k = NodeId(last'.name) THEN PRESENT ELSE mCameraStatusMap[k]]
                ELSE mCameraStatusMap ]_vars

\* isExternalDevice met a failure for the node answering p, or a driver it does not
\* know: the sysfs name not read, open failed, VIDIOC_QUERYCAP failed, VIDIOC_ENUM_FMT
\* failed, or the driver neither "uvc" nor "cap"
ClassificationFails(b, p) ==
    \/ b.impl = "aidl" /\ ~p.readOk
    \/ ~p.openOk
    \/ ~p.querycapOk
    \/ p.uvc /\ ~p.enumFmtOk
    \/ ~p.uvc /\ p.cap /\ ~p.reReadOk
    \/ ~p.uvc /\ ~p.cap

\* deviceAdded met a failure for the node answering q
CaptureProbeFails(q) == ~q.openOk \/ ~q.querycapOk \/ ~q.capture \/ ~q.initOk

\* C12: IN_CREATE of a video node that is not internal, for which isExternalDevice
\* or deviceAdded meets a failure, leaves the map as it is, makes no call on the
\* callback, and the thread goes on to the next event
C12_FailedCreateIsNoOp ==
    [][ ( /\ last'.op = "videoCreate"
          /\ \/ \E p \in last'.answers : ClassificationFails(build, p)
             \/ \E q \in last'.addAnswers : CaptureProbeFails(q) )
        => /\ mCameraStatusMap' = mCameraStatusMap
           /\ told' = told
           /\ last'.notif = NoNotif
           /\ last'.added = NoKey
           /\ wpc' \in {"watch", "events"}
           /\ ~crashed' ]_vars

\* C12: IN_CREATE was handled for a node that isExternalDevice accepted and for
\* which deviceAdded failed, a callback attached
C12_Witness ==
    /\ last.op = "videoCreate"
    /\ \E q \in last.addAnswers : CaptureProbeFails(q)
    /\ \E p \in last.answers : ~ClassificationFails(build, p)
    /\ mCallback # NullCb
    /\ ~crashed

\* C13: IN_CREATE of cec* whose re-scan finds the HDMI receiver and adds it stores
\* the name of that node as PRESENT, and every later IN_DELETE of cec* calls
\* deviceRemoved for the name the most recent such IN_CREATE stored
C13_CecDeleteRemovesRemembered ==
    [][ /\ (last'.op = "cecCreate" /\ last'.added # NoKey)
            => /\ \E e \in last'.probed : last'.added = NodeId(e)
               /\ last'.added \in DOMAIN mCameraStatusMap'
               /\ mCameraStatusMap'[last'.added] = PRESENT
        /\ (last'.op = "cecDelete" /\ hdmiRxName # NoKey)
            => last'.removed = hdmiRxName ]_vars

\* name is device@<major>.<minor>/external/<id> with a decimal id that an int holds
WellFormed(name) ==
    /\ Len(name) = 4
    /\ name[1] = "device@"
    /\ IsVersion(name[2])
    /\ name[3] = "/external/"
    /\ name[4] # <<>>
    /\ LeadingDigitCount(name[4]) = Len(name[4])
    /\ AtMost(name[4], INT_MAX)

\* C14: getCameraDeviceInterface with a name that is not well formed returns
\* ILLEGAL_ARGUMENT, and the process lives on
C14_MalformedNameRejected ==
    [][ (last'.op = "getCameraDeviceInterface" /\ ~WellFormed(last'.asked))
        => /\ last'.ret = "ILLEGAL_ARGUMENT"
           /\ ~crashed' ]_vars

\* what getCameraDeviceInterface returns for a name matchDeviceName does not match
InvalidOutcome == "ILLEGAL_ARGUMENT"

\* the step looked name up in the map and did not find it PRESENT
LookupMisses(op, name) ==
    \/ /\ op = "getCameraDeviceInterface"
       /\ name \notin DOMAIN mCameraStatusMap
    \/ /\ op = "getCameraDeviceInterfaceIndex"
       /\ name \notin DOMAIN mCameraStatusMap \/ mCameraStatusMap[name] # PRESENT

\* C15: getCameraDeviceInterface with a well-formed name that is not PRESENT in the
\* map returns an outcome that is not the one of a malformed name, and constructs
\* no device object
C15_NotFoundIsDistinct ==
    [][ ( /\ last'.op \in {"getCameraDeviceInterface", "getCameraDeviceInterfaceIndex"}
          /\ WellFormed(last'.asked)
          /\ LookupMisses(last'.op, last'.asked) )
        => /\ last'.ret \notin {InvalidOutcome, "OK", "INTERNAL_ERROR", ""}
           /\ last'.path = <<>> ]_vars

\* C16: no step of getCameraDeviceInterface changes the map or makes a call on the
\* callback, and when it returns INTERNAL_ERROR the name is PRESENT in the map still
C16_ResolveOnlyReads ==
    [][ last'.op \in {"getCameraDeviceInterface", "getCameraDeviceInterfaceIndex"}
        => /\ mCameraStatusMap' = mCameraStatusMap
           /\ told' = told
           /\ last'.notif = NoNotif
           /\ last'.ret = "INTERNAL_ERROR"
                => /\ last'.asked \in DOMAIN mCameraStatusMap'
                   /\ mCameraStatusMap'[last'.asked] = PRESENT ]_vars

\* the offsets and the node suffixes of the round trip
MaxOffset == 3

MaxSuffix == 12

\* the path matchDeviceName gives back for the name addExternalCamera builds for
\* the node suffix n under the offset o
RoundTripPath(o, n) ==
    matchDeviceName(o, DeviceNameOf(build, mPreferredHal3MinorVersion, o, n)).path

C18_ScanOpenFailureEndsWorker ==
    [][ /\ last'.op = "openDirFails"
          => /\ wpc' = "exited"
             /\ ~watching'
             /\ mCameraStatusMap' = mCameraStatusMap
             /\ told' = told
        /\ wpc = "exited" => wpc' = "exited" /\ watching' = watching ]_vars

\* C19: a thread that is in the watch loop stays in it: no step of handling an
\* event ends it (nothing in the model asks it to stop)
C19_WatchLoopIsNeverLeft ==
    [][ (wpc \in {"watch", "events"}) => (wpc' \in {"watch", "events"}) ]_vars

\* C20: once the thread was asked to exit it ends (or the process has died)
C20_ExitRequestIsHonoured ==
    mExitPending ~> (wpc = "exited" \/ crashed)

\* the name attribute holds the name of a hardware decoder or encoder
IsCodecName(sysName) ==
    StartsWith(sysName, video_decoder_name) \/ StartsWith(sysName, video_encoder_name)

\* C21: a node whose name attribute is that of a decoder or encoder is classified
\* NotExternal, whatever the driver name, the capability query and the format
\* enumeration answer
C21_CodecNodeIsNeverExternal ==
    last.op = "isExternalDevice"
      => \A p \in last.answers :
           (p.readOk /\ p.reReadOk /\ IsCodecName(p.sysName)) => last.ret = "NotExternal"

\* C22: the key addExternalCamera builds for /dev/video<N>, and the key
\* deviceRemoved builds for it, is the name whose id is N + cameraIdOffset
C22_KeyIsSuffixPlusOffset ==
    [][ /\ (last'.op \in {"scan", "videoCreate"} /\ last'.added # NoKey)
             => last'.added = NodeId(last'.name)
        /\ (last'.op = "videoDelete") => last'.removed = NodeId(last'.name) ]_vars

\* C23: when the constructor returns, every key the thread has put in the map
\* carries the version that was configured, and so does every key it inserts or
\* erases from then on
C23_KeysCarryConfiguredVersion ==
    [][ /\ last'.op = "constructorEnds"
          => \A k \in DOMAIN mCameraStatusMap' :
               k[2] = DeviceVersion(build', mPreferredHal3MinorVersion')
        /\ (constructed /\ last'.added # NoKey)
          => last'.added[2] = DeviceVersion(build', mPreferredHal3MinorVersion')
        /\ (constructed /\ last'.removed # NoKey)
          => last'.removed[2] = DeviceVersion(build', mPreferredHal3MinorVersion') ]_vars

\* C24: a call on a callback goes to the object mCallback holds, and to no other: a
\* callback that was replaced is told nothing more, with no callback nobody is told
\* anything, and the step that replaces or clears the callback neither changes the
\* map nor calls anybody
C24_OnlyTheCurrentSinkIsTold ==
    [][ /\ last'.notif # NoNotif
          => last'.notif.sink = mCallback' /\ mCallback' # NullCb
        /\ \A cb \in AllCallbacks : cb # mCallback' => told'[cb] = told[cb]
        /\ last'.op = "setCallback"
          => mCameraStatusMap' = mCameraStatusMap /\ last'.notif = NoNotif ]_vars

\* C24 witness: cb1 was attached and told of a camera, cb2 took its place, and a
\* camera added after that was notified to cb2
C24_Witness ==
    /\ mCallback = "cb2"
    /\ told["cb1"] # EmptyMap
    /\ last.op = "videoCreate"
    /\ last.notif = Notif("cb2", last.added, PRESENT)
    /\ last.added \notin DOMAIN told["cb1"]

\* what the classifier is to answer for a node that opens, answers the capability
\* query and is no codec: by the driver name, the format enumeration and the name
ExpectedClass(p) ==
    IF p.uvc /\ p.enumFmtOk THEN "External"
    ELSE IF ~p.uvc /\ p.cap /\ StartsWith(p.sysName, propName) THEN "ExternalReceiver"
    ELSE "NotExternal"

\* C25 (as the code has it): for a node whose name attribute is read every time it
\* is asked for, that opens, answers the capability query and is no codec node,
\* isExternalDevice answers External iff the driver is uvc and VIDIOC_ENUM_FMT
\* succeeds, ExternalReceiver iff the driver is not uvc, is cap, and the name starts
\* with the receiver's, and NotExternal otherwise
C25_ClassificationTable ==
    last.op = "isExternalDevice"
      => \A p \in last.answers :
           (p.readOk /\ p.reReadOk /\ p.openOk /\ p.querycapOk /\ ~IsCodecName(p.sysName))
             => last.ret = ExpectedClass(p)

\* C25 witness: a cap node named as the receiver was classified ExternalReceiver by
\* the AIDL file, and the name was read both times
C25_Witness ==
    /\ last.op = "isExternalDevice" /\ last.ret = "ExternalReceiver"
    /\ build.impl = "aidl"
    /\ \E p \in last.answers :
         p.readOk /\ p.reReadOk /\ p.openOk /\ p.querycapOk /\ ~p.uvc /\ p.cap

\* C25 as the spec words it: the same for every node that opens, answers the
\* capability query and is no codec node
C25_ClassificationTableAnyRead ==
    last.op = "isExternalDevice"
      => \A p \in last.answers :
           (p.openOk /\ p.querycapOk /\ ~IsCodecName(p.sysName))
             => last.ret = ExpectedClass(p)

\* C26: a step that stores a name as PRESENT is a scan step, a video IN_CREATE or a
\* cec IN_CREATE in which the node handed to deviceAdded was classified, the
\* classification was External or ExternalReceiver, and the open, the
\* VIDIOC_QUERYCAP and the capture bits of deviceAdded were all right
C26_PresentOnlyAfterClassifyAndProbe ==
    [][ ( \/ last'.added # NoKey
          \/ \E k \in DOMAIN mCameraStatusMap' :
               /\ mCameraStatusMap'[k] = PRESENT
               /\ (k \notin DOMAIN mCameraStatusMap \/ mCameraStatusMap[k] # PRESENT) )
        => /\ last'.op \in {"scan", "videoCreate", "cecCreate"}
           /\ last'.added \in DOMAIN mCameraStatusMap'
           /\ last'.probed # {} /\ last'.probed \subseteq last'.classified
           /\ last'.answers # {}
           /\ \A p \in last'.answers :
                p.openOk /\ p.querycapOk /\ ExpectedClass(p) # "NotExternal"
           /\ last'.addAnswers # {}
           /\ \A q \in last'.addAnswers : q.openOk /\ q.querycapOk /\ q.capture ]_vars

\* C26 witness: the cec re-scan stored the receiver node after it was classified
\* ExternalReceiver and passed the checks of deviceAdded
C26_Witness ==
    /\ last.op = "cecCreate" /\ last.added # NoKey
    /\ last.added \in DOMAIN mCameraStatusMap
    /\ \E p \in last.answers : ExpectedClass(p) = "ExternalReceiver"
    /\ \E q \in last.addAnswers : q.capture

\* C27: the thread that has begun the initial scan never begins it again
C27_ScanRunsOnce ==
    [][ (wpc # "start") => (wpc' # "start") ]_vars

\* the answers p are those of the HDMI receiver for the build b
AnswersAsReceiver(b, p) ==
    /\ b.impl = "aidl" => p.readOk /\ ~IsCodecName(p.sysName)
    /\ p.openOk /\ p.querycapOk /\ p.reReadOk
    /\ ExpectedClass(p) = "ExternalReceiver"

\* the keys whose entry differs between the maps m1 and m2
ChangedKeys(m1, m2) ==
    { k \in DOMAIN m1 \cup DOMAIN m2 :
        k \notin DOMAIN m1 \/ k \notin DOMAIN m2 \/ m1[k] # m2[k] }

\* C28: the re-scan of a cec IN_CREATE picks the first video entry, in the order of
\* readdir, that answers as the receiver, and none when no entry does; the step
\* hands one node at most to deviceAdded, changes one entry of the map at most and
\* makes one call at most; when it picks no node, the map, the buffer mHdmiRxNode
\* and what the callback was told stay as they are
C28_CecCreateFirstMatchOnly ==
    [][ last'.op = "cecCreate"
        => /\ \A order \in Orders(VideoEntries(devdir)) :
                \A pr \in [VideoEntries(devdir) -> RescanProbes] :
                   LET i == FirstHdmiRx(build, order, pr, 1)
                   IN  /\ i # 0 => AnswersAsReceiver(build, pr[order[i]])
                       /\ \A j \in 1..Len(order) :
                            (i = 0 \/ j < i) => ~AnswersAsReceiver(build, pr[order[j]])
           /\ Cardinality(last'.probed) <= 1
           /\ last'.probed \subseteq last'.classified
           /\ Cardinality(ChangedKeys(mCameraStatusMap, mCameraStatusMap')) <= 1
           /\ ChangedKeys(mCameraStatusMap, mCameraStatusMap') \subseteq {last'.added}
           /\ last'.notif # NoNotif => last'.notif = Notif(mCallback, last'.added, PRESENT)
           /\ last'.probed = {}
                => /\ mCameraStatusMap' = mCameraStatusMap
                   /\ mHdmiRxNode' = mHdmiRxNode
                   /\ hdmiRxName' = hdmiRxName
                   /\ told' = told
                   /\ last'.notif = NoNotif ]_vars

\* C28 witness: two video nodes were in /dev, a callback was attached, and the
\* re-scan stopped at the first entry it read, registered it and notified it
C28_Witness ==
    /\ last.op = "cecCreate" /\ last.added # NoKey
    /\ Cardinality(VideoEntries(devdir)) >= 2
    /\ Cardinality(last.classified) = 1
    /\ last.probed = last.classified
    /\ last.notif = Notif("cb1", last.added, PRESENT)

\* C29: the records of one read are handled one by one from the first on, each by
\* the step that takes it off the batch; the thread leaves a batch only after its
\* last record; and a record for a name that is neither a video node to look at nor
\* a cec node changes neither the map nor what the callback was told
C29_BatchHandledInOrder ==
    [][ /\ (evbuf # <<>> /\ evbuf' # evbuf)
             => evbuf' = Tail(evbuf) /\ last'.name = Head(evbuf).name
        /\ (wpc = "events" /\ wpc' # "events") => Tail(evbuf) = <<>>
        /\ last'.op = "ignored"
             => mCameraStatusMap' = mCameraStatusMap /\ told' = told ]_vars

\* C30: a cec IN_DELETE that comes when no cec IN_CREATE has stored a receiver
\* erases no entry of the map and makes no call on the callback
C30_CecDeleteWithoutReceiverIsNoOp ==
    [][ (last'.op = "cecDelete" /\ hdmiRxName = NoKey)
        => /\ mCameraStatusMap' = mCameraStatusMap
           /\ told' = told
           /\ last'.notif = NoNotif
           /\ ~last'.hit ]_vars

\* C31: a read of the notification descriptor that fails or gives fewer bytes than
\* one event header is skipped: the thread goes on waiting, no record is taken from
\* the buffer, none from behind the bytes read, and the map and what the callback
\* was told stay as they were
C31_InvalidReadIsSkipped ==
    [][ (last'.op = "readInvalid")
        => /\ wpc' = "watch"
           /\ evbuf' = <<>>
           /\ mCameraStatusMap' = mCameraStatusMap
           /\ told' = told ]_vars

\* C32: the name registered and notified for the node /dev/video<N> resolves to the
\* path /dev/video<N>: at every step that registers a node, there for every offset
\* and every number addExternalCamera can take from the path of a node as well, and
\* at every resolution that constructs a device object for a registered name
C32_RegisteredIdResolvesToItsNode ==
    /\ last.added # NoKey
         => /\ \A e \in last.probed :
                 matchDeviceName(cameraIdOffset, last.added).path = kDevicePath \o e
            /\ \A o \in 0..MaxOffset : \A n \in 0..MaxSuffix :
                 \A m \in AtoiOutcomes(DevicePathOf(kPrefix \o to_string(n)),
                                        kDevicePrefixLen(build)) :
                   matchDeviceName(o, DeviceNameOf(build, mPreferredHal3MinorVersion, o, m)).path
                     = kDevicePath \o kPrefix \o to_string(n)
    /\ (last.op = "getCameraDeviceInterfaceIndex" /\ last.path # <<>>)
         => \E e \in VideoEntries(Entries) :
              last.asked = NodeId(e) /\ last.path = kDevicePath \o e

====
